---- MODULE Spec2Model ----
(***************************************************************************)
(* The Mixpanel integration (src/lib/index.js): one message, validated and *)
(* mapped to the HTTP requests of identify / track / page / screen / alias *)
(* / group.  The module models the request plan of each operation: which   *)
(* calls are issued, when, to which endpoint, how each response is         *)
(* interpreted and when the operation's callback is invoked.               *)
(*                                                                         *)
(* Time is counted in whole seconds (the code counts milliseconds).        *)
(* An optional JavaScript value is a sequence: <<>> is undefined, <<v>> is *)
(* the value v.                                                            *)
(***************************************************************************)
EXTENDS Integers, Sequences, FiniteSets, TLC

VARIABLES
    msg,        \* the message handed to the integration (a facade)
    settings,   \* this.settings
    phase,      \* "new" | "invalid" | "running" | "thrown"
    calls,      \* every HTTP request issued so far, in order of issue
    firstFailure, \* the call whose response was the first failure observed, 0 if none
    batches,    \* the Batch objects created so far
    ticks,      \* callbacks scheduled with setImmediate, in order
    cbs         \* invocations of the operation's callback fn, in order

vars == <<msg, settings, phase, calls, firstFailure, batches, ticks, cbs>>

-----------------------------------------------------------------------------
(* Time *)

\* ms('5d'), in seconds
FiveDays == 432000

\* Date.now(), in seconds
Now == 200000000

-----------------------------------------------------------------------------
(* JavaScript values that travel through callbacks *)

Null == [t |-> "null", call |-> 0, cls |-> "", message |-> "", items |-> <<>>]

Undefined == [t |-> "undefined", call |-> 0, cls |-> "", message |-> "", items |-> <<>>]

\* the response `res` of call c
Res(c) == [t |-> "res", call |-> c, cls |-> "", message |-> "", items |-> <<>>]

\* an Error raised for call c; cls tells the constructor that made it: the
\* HTTP client ("transport") or this.error ("rejected"), and message is the
\* text the constructor was given
Err(c, cls, message) ==
    [t |-> "error", call |-> c, cls |-> cls, message |-> message, items |-> <<>>]

\* an array of values
Arr(items) == [t |-> "array", call |-> 0, cls |-> "", message |-> "", items |-> items]

\* `if (err)`
IsErr(v) == v.t = "error"

\* arr[i] with JavaScript's 0-based index
At(arr, i) == IF arr.t = "array" /\ i + 1 <= Len(arr.items) THEN arr.items[i + 1] ELSE Undefined

\* truthiness of an optional number and of an optional string
TruthyNum(x) == x # <<>> /\ x[1] # 0

TruthyStr(x) == x # <<>> /\ x[1] # ""

\* a || b on optional strings
OrStr(a, b) == IF TruthyStr(a) THEN a ELSE b

\* truthiness of an optional boolean
TruthyBool(x) == x = <<TRUE>>

-----------------------------------------------------------------------------
(* JavaScript objects: a sequence of <<key, value>> in insertion order *)

\* the values of a payload: a string, a number, a boolean, an array of
\* strings, a nested object (by its JSON text) and undefined
Str(x) == [str |-> x]

Num(n) == [num |-> n]

Bool(b) == [bool |-> b]

List(xs) == [arr |-> xs]

Obj(json) == [obj |-> json]

JsUndefined == [undef |-> TRUE]

JsNull == [null |-> TRUE]

\* a Date, by its time in seconds
DateVal(t) == [date |-> t]

IsString(v) == DOMAIN v = {"str"}

\* null == v
IsNullish(v) == v \in {JsNull, JsUndefined}

\* `if (v)`
Truthy(v) == v \notin {JsNull, JsUndefined, Str(""), Num(0), Bool(FALSE)}

Keys(o) == {o[i][1] : i \in 1..Len(o)}

\* o[k]
Get(o, k) ==
    IF k \in Keys(o) THEN o[CHOOSE i \in 1..Len(o) : o[i][1] = k][2] ELSE JsUndefined

\* o[k] = v: an existing key keeps its place, a new one goes last
Put(o, k, v) ==
    IF k \in Keys(o) THEN [i \in 1..Len(o) |-> IF o[i][1] = k THEN <<k, v>> ELSE o[i]]
    ELSE Append(o, <<k, v>>)

\* delete o[k]
Delete(o, k) == SelectSeq(o, LAMBDA kv : kv[1] # k)

\* the default normalizer of obj-case: drop what is not a letter, a digit or
\* a dot, then lower the case
Normalize(k) ==
    CASE k \in {"$name", "Name", "name"} -> "name"
      [] k = "isGroup" -> "isgroup"
      [] k \in {"firstName", "$first_name"} -> "firstname"
      [] k \in {"lastName", "Last Name", "$last_name"} -> "lastname"
      [] k \in {"email", "Email", "$email"} -> "email"
      [] k \in {"created", "$created"} -> "created"
      [] k = "createdAt" -> "createdat"
      [] k \in {"lastSeen", "$last_seen"} -> "lastseen"
      [] k \in {"username", "$username"} -> "username"
      [] k \in {"phone", "$phone"} -> "phone"
      [] k = "trait_token" -> "traittoken"
      [] k = "distinct_id" -> "distinctid"
      [] k \in {"referrer", "$referrer"} -> "referrer"
      [] k \in {"searchEngine", "$search_engine"} -> "searchengine"
      [] k = "mp_lib" -> "mplib"
      [] k = "mp_name_tag" -> "mpnametag"
      [] k = "$lib_version" -> "libversion"
      [] k = "$os" -> "os"
      [] k = "$browser" -> "browser"
      [] k = "$distinct_id" -> "distinctid"
      [] OTHER -> k

NormalizeDroppingDollar(k) == Normalize(k)

\* the normalizer formatTraits hands to object.del: as the default one, but
\* a dollar sign is kept
NormalizeKeepDollar(k) ==
    CASE k \in {"Name", "name"} -> "name"
      [] k = "isGroup" -> "isgroup"
      [] k = "firstName" -> "firstname"
      [] k = "$first_name" -> "$firstname"
      [] k \in {"lastName", "Last Name"} -> "lastname"
      [] k = "$last_name" -> "$lastname"
      [] k \in {"email", "Email"} -> "email"
      [] k = "createdAt" -> "createdat"
      [] k = "lastSeen" -> "lastseen"
      [] k = "$last_seen" -> "$lastseen"
      [] k = "trait_token" -> "traittoken"
      [] k = "distinct_id" -> "distinctid"
      [] k = "$distinct_id" -> "$distinctid"
      [] OTHER -> k

\* what object.del deletes: the first, in insertion order, of the keys at the
\* positions hits
DeleteFirst(o, hits) ==
    IF hits = {} THEN o
    ELSE LET h == CHOOSE i \in hits : \A j \in hits : i <= j
         IN  SubSeq(o, 1, h - 1) \o SubSeq(o, h + 1, Len(o))

\* object.del(o, k, { normalizer: ... }) of formatTraits: delete the first key
\* whose normalized form is the normalized k
ObjectDelKeepDollar(o, k) ==
    DeleteFirst(o, {i \in 1..Len(o) : NormalizeKeepDollar(o[i][1]) = NormalizeKeepDollar(k)})

\* object.del(o, k), with the default normalizer
ObjectDel(o, k) ==
    DeleteFirst(o, {i \in 1..Len(o) : Normalize(o[i][1]) = Normalize(k)})

\* what obj-case finds: the value of the first, in insertion order, of the keys
\* at the positions hits
ValueOfFirst(o, hits) ==
    IF hits = {} THEN JsUndefined
    ELSE o[CHOOSE i \in hits : \A j \in hits : i <= j][2]

\* obj-case find, which proxy('traits.k') of the facade uses: the value of the
\* first key whose normalized form is the normalized k
Find(o, k) == ValueOfFirst(o, {i \in 1..Len(o) : Normalize(o[i][1]) = Normalize(k)})

\* stringifyValues(obj): a nested object becomes its JSON text
stringifyValues(o) ==
    [i \in 1..Len(o) |->
        IF DOMAIN o[i][2] = {"obj"} THEN <<o[i][1], Str(o[i][2].obj)>> ELSE o[i]]

\* JSON.stringify inside b64encode leaves out the keys whose value is undefined
Json(o) == SelectSeq(o, LAMBDA kv : kv[2] # JsUndefined)

-----------------------------------------------------------------------------
(* Messages and settings *)

\* message.timestamp(): the facade answers new Date() when the message has none
Timestamp(m) == IF m.timestamp = <<>> THEN Now ELSE m.timestamp[1]

\* Date.now() - timestamp.getTime()
Age(m) == Now - Timestamp(m)

\* String.prototype.toLowerCase on the strings of the model
ToLowerCase(s) ==
    CASE s = "Purchased" -> "purchased"
      [] s = "PURCHASED" -> "purchased"
      [] s = "Signup" -> "signup"
      [] s = "Loaded a Page" -> "loaded a page"
      [] s = "Loaded a Screen" -> "loaded a screen"
      [] s = "Viewed Docs Page" -> "viewed docs page"
      [] s = "Viewed Docs Screen" -> "viewed docs screen"
      [] s = "Viewed Index Page" -> "viewed index page"
      [] s = "Viewed Index Screen" -> "viewed index screen"
      [] s = "Viewed Docs Index Page" -> "viewed docs index page"
      [] s = "Viewed Docs Index Screen" -> "viewed docs index screen"
      [] OTHER -> s

\* lowercase(arr)
lowercase(arr) == [i \in 1..Len(arr) |-> ToLowerCase(arr[i])]

\* arr.indexOf(x) is not -1
Contains(arr, x) == \E i \in 1..Len(arr) : arr[i] = x

ShouldImportInclusive(m) == Age(m) >= FiveDays

ShouldImportNever(m) == FALSE

\* shouldImport(message)
shouldImport(m) == Age(m) > FiveDays

\* .ensure('settings.token'): the setting must be present and not empty
EnsureToken(s) == IF TruthyStr(s.token) THEN "" ELSE "setting \"token\" is required"

\* Mixpanel.ensure(function(msg, settings){...}): "" when the rule passes
EnsureApiKey(m, s) ==
    IF TruthyStr(s.apiKey) THEN ""
    ELSE IF "track" # m.type THEN ""
    ELSE IF ~shouldImport(m) THEN ""
    ELSE ".apiKey is required if \"track\" message is older than 5 days."

ValidateApiKeyOnly(m, s) == EnsureApiKey(m, s)

\* the validations run in the order they were registered; the first failure wins
Validate(m, s) == IF EnsureToken(s) # "" THEN EnsureToken(s) ELSE EnsureApiKey(m, s)

-----------------------------------------------------------------------------
(* The inputs *)

\* ms('5y') in seconds: the age beyond which the destination rejects events
FiveYears == 5 * 31557600

Timestamps ==
    { <<>>, <<Now - (FiveDays - 1)>>, <<Now - FiveDays>>, <<Now - (FiveDays + 1)>>,
      <<Now - (FiveYears + 1)>> }

Message(type, ts, userId, event, revenue, deviceToken, category, name) ==
    [ type |-> type, timestamp |-> ts, userId |-> userId, sessionId |-> <<"s1">>,
      event |-> event, revenue |-> revenue, deviceToken |-> deviceToken,
      category |-> category, name |-> name,
      groupId |-> "g1", previousId |-> <<"p1">>, traits |-> <<>>,
      ip |-> <<>>, ignoreIp |-> <<>>, mpIgnoreIp |-> <<>>,
      ignoreTime |-> <<>>, mpIgnoreTime |-> <<>>, active |-> <<>>,
      library |-> "unknown", properties |-> <<>>, userAgent |-> <<>>, os |-> <<>> ]

\* an optional flag of the message: absent, false or true
Flags == {<<>>, <<FALSE>>, <<TRUE>>}

\* ignoreIp, mpIgnoreIp, ignoreTime, mpIgnoreTime and active are context.ignoreIp,
\* context.Mixpanel.ignoreIp, context.ignoreTime, context.Mixpanel.ignoreTime
\* and options.active of the message
IdentifyMessages ==
    { Message("identify", ts, u, "", <<>>, d, <<>>, <<>>) :
        ts \in Timestamps, u \in {<<>>, <<"u1">>}, d \in {<<>>, <<"dev1">>} }
    \cup
    { [Message("identify", <<>>, <<"u1">>, "", <<>>, <<"dev1">>, <<>>, <<>>)
          EXCEPT !.ip = ip, !.ignoreIp = ii, !.mpIgnoreIp = mi] :
        ip \in {<<>>, <<"12.212.12.49">>}, ii \in Flags, mi \in {<<>>, <<TRUE>>} }
    \cup
    { [Message("identify", <<>>, <<"u1">>, "", <<>>, <<>>, <<>>, <<>>)
          EXCEPT !.ignoreTime = it, !.mpIgnoreTime = mt, !.active = a] :
        it \in Flags, mt \in Flags, a \in Flags }

TrackMessages ==
    { Message("track", ts, u, e, r, <<>>, <<>>, <<>>) :
        ts \in Timestamps, u \in {<<>>, <<"u1">>}, e \in {"Purchased", "Signup"},
        r \in {<<>>, <<0>>, <<999>>} }

\* the traits of an identify
IdentifyTraits ==
    { << <<"firstName", Str(" John ")>>, <<"Last Name", Str("Doe")>>,
         <<"email", Str("a@b.c")>>, <<"phone", Str("5555555555")>>,
         <<"username", Str("jd")>>, <<"token", Str("abc")>>, <<"plan", Str("pro")>>,
         <<"address", Obj("{\"city\":\"SF\"}")>> >>,
      << <<"name", Str("John Doe")>>, <<"createdAt", DateVal(Now - FiveDays)>>,
         <<"bad", JsNull>> >>,
      << <<"Email", Str("A@B.C")>>, <<"created", DateVal(Now - FiveDays)>>,
         <<"company", Str("Segment.io")>> >> }

TraitMessages ==
    { [Message("identify", <<>>, <<"u1">>, "", <<>>, <<>>, <<>>, <<>>) EXCEPT !.traits = tr] :
        tr \in IdentifyTraits }

\* track messages whose context and options matter to the revenue request
RevenueMessages ==
    { [Message("track", <<>>, <<"u1">>, "Purchased", <<999>>, <<>>, <<>>, <<>>)
          EXCEPT !.ip = <<"12.212.12.49">>, !.ignoreIp = ii, !.active = a] :
        ii \in Flags, a \in {<<>>, <<FALSE>>} }

\* the properties of a track: some spelt as the fields the payload reserves,
\* one null, one nested, some that formatProperties derives again
TrackProperties ==
    { <<>>,
      << <<"token", Str("mine")>>, <<"distinct_id", Str("other")>>,
         <<"plan", Str("pro")>>, <<"coupon", JsNull>>,
         <<"cart", Obj("{\"items\":2}")>> >>,
      << <<"referrer", Str("http://r.io")>>, <<"username", Str("jd")>>,
         <<"searchEngine", Str("google")>> >> }

\* context.traits of a track
TrackTraits ==
    { <<>>,
      << <<"email", Str("a@b.c")>>, <<"name", Str("John Doe")>>, <<"bad", JsNull>> >>,
      << <<"distinct_id", Str("forged")>>, <<"token", Str("abc")>>,
         <<"plan", Str("free")>> >> }

\* context.userAgent: none, a browser, a client ua-parser-js does not know
UserAgents == {<<>>, <<"Mozilla/5.0 (Macintosh) Chrome/41.0">>, <<"curl/7.35.0">>}

\* track messages whose properties, traits and user agent matter to the payload
PropertyMessages ==
    { [Message("track", <<>>, u, "Signup", <<>>, <<>>, <<>>, <<>>)
          EXCEPT !.properties = pr, !.traits = tr, !.userAgent = ua, !.os = os] :
        u \in {<<>>, <<"u1">>}, pr \in TrackProperties, tr \in TrackTraits,
        ua \in UserAgents, os \in {<<>>, <<"iOS">>} }

\* a page or screen with revenue has no name here, which keeps the requests of
\* one page call to four
PageMessages ==
    { Message(t, ts, <<"u1">>, "", <<>>, <<>>, c, n) :
        t \in {"page", "screen"}, ts \in {<<>>, <<Now - (FiveDays + 1)>>},
        c \in {<<>>, <<"Docs">>}, n \in {<<>>, <<"Index">>} }
    \cup
    { Message(t, <<>>, <<"u1">>, "", <<999>>, <<>>, c, <<>>) :
        t \in {"page", "screen"}, c \in {<<>>, <<"Docs">>} }
    \cup
    { Message(t, ts, <<"u1">>, "", <<>>, <<>>, <<>>, <<>>) :
        t \in {"page", "screen"}, ts \in {<<Now - (FiveDays - 1)>>, <<Now - FiveDays>>} }

AliasMessages ==
    { Message("alias", ts, <<"u1">>, "", <<>>, <<>>, <<>>, <<>>) : ts \in Timestamps }

\* json.traits of a group
GroupTraits ==
    { <<>>,
      << <<"name", Str("Acme")>>, <<"address", Obj("{\"city\":\"SF\"}")>> >> }

GroupMessages ==
    { [Message("group", ts, u, "", <<>>, <<>>, <<>>, <<>>) EXCEPT !.traits = tr] :
        ts \in Timestamps, u \in {<<>>, <<"u1">>}, tr \in GroupTraits }

Messages ==
    IdentifyMessages \cup TraitMessages \cup TrackMessages \cup RevenueMessages
        \cup PropertyMessages
        \cup PageMessages \cup AliasMessages
        \cup GroupMessages

Tokens == {<<>>, <<"">>, <<"t0k">>}

ApiKeys == {<<>>, <<"key">>}

Settings(token, apiKey, people, increments, all, categorized, named) ==
    [ token |-> token, apiKey |-> apiKey, people |-> people, increments |-> increments,
      trackAllPages |-> all, trackCategorizedPages |-> categorized,
      trackNamedPages |-> named, consolidatedPageCalls |-> FALSE,
      setAllTraitsByDefault |-> TRUE, peopleProperties |-> <<>>,
      legacySuperProperties |-> FALSE ]

\* The settings tried with a message: the options its operation never reads are
\* left at their defaults.
SettingsFor(m) ==
    IF m \in PropertyMessages
    THEN { [Settings(<<"t0k">>, <<>>, p, <<>>, FALSE, FALSE, FALSE)
               EXCEPT !.legacySuperProperties = legacy] :
             p \in BOOLEAN, legacy \in BOOLEAN }
    ELSE IF m.type = "track"
    THEN { Settings(t, k, p, i, FALSE, FALSE, FALSE) :
             t \in Tokens, k \in ApiKeys, p \in BOOLEAN, i \in {<<>>, <<"PURCHASED">>} }
    ELSE IF m.type \in {"page", "screen"}
    THEN { [Settings(t, k, p, <<>>, a, c, n) EXCEPT !.consolidatedPageCalls = cons] :
             t \in {<<>>, <<"t0k">>}, k \in ApiKeys, p \in BOOLEAN,
             a \in BOOLEAN, c \in BOOLEAN, n \in BOOLEAN, cons \in BOOLEAN }
    ELSE IF m.type = "identify" /\ m.traits # <<>>
    THEN { [Settings(<<"t0k">>, <<>>, p, <<>>, FALSE, FALSE, FALSE)
               EXCEPT !.setAllTraitsByDefault = all, !.peopleProperties = pp] :
             p \in BOOLEAN, all \in BOOLEAN,
             pp \in {<<>>, <<"$first_name", "met", "$created", "$email", "id">>} }
    ELSE { Settings(t, k, p, <<>>, FALSE, FALSE, FALSE) :
             t \in Tokens, k \in ApiKeys, p \in BOOLEAN }

-----------------------------------------------------------------------------
(* Requests, callbacks and Batch *)

\* The part of the state the operations work on.
Cur == [calls |-> calls, batches |-> batches, ticks |-> ticks, cbs |-> cbs]

\* where a result goes: the operation's callback fn, slot i of Batch b, the
\* wrapper of page around slot i of Batch b, or the handler inside group
Fn == [k |-> "fn", b |-> 0, i |-> 0]

Slot(b, i) == [k |-> "batch", b |-> b, i |-> i]

PageSlot(b, i) == [k |-> "pageTrack", b |-> b, i |-> i]

GroupHandler == [k |-> "group", b |-> 0, i |-> 0]

\* a function pushed on a Batch; ev is the event of the track call it belongs to
Thunk(f, ev) == [f |-> f, ev |-> ev]

\* the query string of a request
Query(ip, verbose, apiKey) == [ip |-> ip, verbose |-> verbose, api_key |-> apiKey]

\* a request: .get(path) / .post(path) ... .end(handler)
Request(kind, ev, method, path, query, data, parsed, cont) ==
    [ kind |-> kind, ev |-> ev, method |-> method, path |-> path, query |-> query,
      data |-> data, parsed |-> parsed, cont |-> cont, contentLength |-> <<>>,
      status |-> "inflight", bodyError |-> "", passed |-> <<>> ]

\* .set('Content-Length', n)
SetContentLength(req, n) == [req EXCEPT !.contentLength = <<n>>]

\* .end(...): the request goes out
Issue(st, req) == [st EXCEPT !.calls = Append(@, req)]

\* tick(fn): setImmediate(fn), fn is later called without arguments
SetImmediate(st, cont) ==
    [st EXCEPT !.ticks = Append(@, [cont |-> cont, err |-> Undefined, res |-> Undefined, nargs |-> 0])]

SequentialConcurrency == [inf |-> FALSE, n |-> 1]

\* new Batch: this.concurrency(Infinity), never changed by the integration
concurrency == [inf |-> TRUE, n |-> 0]

\* new Batch: this.throws(true); identify repeats it with batch.throws(true)
throws == TRUE

\* identify.library().name inside group, where `identify` is whatever the host
\* has bound to that name
BoundLibrary == "unknown"

\* 'group.' + group.groupId()
GroupId == "group." \o msg.groupId

\* the traits group sends: $name takes the value of name, isGroup is set,
\* then object.del(traits, 'name')
GroupTraitsSent ==
    ObjectDel(Put(Put(msg.traits, "$name", Get(msg.traits, "name")), "isGroup", Bool(TRUE)),
              "name")

\* track.userId() || track.sessionId()
DistinctId == OrStr(msg.userId, msg.sessionId)

GetIncrementsCaseSensitive(ev) == Contains(settings.increments, ev)

\* getIncrements(track, settings) is defined
getIncrements(ev) == Contains(lowercase(settings.increments), ToLowerCase(ev))

\* formatDate(date): date.toISOString().slice(0, 19), the ISO text of the date
\* cut after the seconds
formatDate(t) == [iso |-> t]

\* increments[type] of the object getIncrements returns
Increments(type, ev) ==
    IF type = "$add" THEN << <<ev, Num(1)>> >>
    ELSE << <<"Last " \o ev, formatDate(Timestamp(msg))>> >>

\* Page.prototype.event(name) / Screen.prototype.event(name) of the facade
PageEvent(name) ==
    LET noun == IF msg.type = "screen" THEN "Screen" ELSE "Page"
    IN  IF TruthyStr(name) THEN "Viewed " \o name[1] \o " " \o noun ELSE "Loaded a " \o noun

CategoryOrName == OrStr(msg.name, msg.category)

\* msg.fullName() of the facade
fullName ==
    IF TruthyStr(msg.category) /\ TruthyStr(msg.name)
    THEN <<msg.category[1] \o " " \o msg.name[1]>>
    ELSE msg.name

\* a || b
Or(a, b) == IF Truthy(a) THEN a ELSE b

\* String.prototype.trim on the strings of the model
Trim(x) == IF x = " John " THEN "John" ELSE x

\* x.split(' ')[0]
FirstWord(x) == IF x = "John Doe" THEN "John" ELSE x

\* x.substr(x.indexOf(' ') + 1), nothing when x has no space
AfterSpace(x) == IF x = "John Doe" THEN Str("Doe") ELSE JsUndefined

\* isEmail(x) of the facade
IsEmail(x) == x \in {"a@b.c", "A@B.C"}

\* firstName() on the traits firstName and name:
\* the trimmed firstName, or the first word of the trimmed name
FirstNameOf(f, n) ==
    IF IsString(f) THEN Str(Trim(f.str))
    ELSE IF IsString(n) THEN Str(FirstWord(Trim(n.str)))
    ELSE JsUndefined

\* identify.firstName() of the facade
FirstName(m) == FirstNameOf(Find(m.traits, "firstName"), Find(m.traits, "name"))

\* lastName() on the traits lastName and name:
\* the trimmed lastName, or what follows the first space of the trimmed name
LastNameOf(l, n) ==
    IF IsString(l) THEN Str(Trim(l.str))
    ELSE IF IsString(n) THEN AfterSpace(Trim(n.str))
    ELSE JsUndefined

\* identify.lastName() of the facade
LastName(m) == LastNameOf(Find(m.traits, "lastName"), Find(m.traits, "name"))

\* name() on the trait name and on firstName() and lastName():
\* the trimmed name, or the two joined when both are there
FullNameOf(n, first, last) ==
    IF IsString(n) THEN Str(Trim(n.str))
    ELSE IF Truthy(first) /\ Truthy(last) THEN Str(first.str \o " " \o last.str)
    ELSE JsUndefined

\* identify.name() of the facade
FullName(m) == FullNameOf(Find(m.traits, "name"), FirstName(m), LastName(m))

\* identify.email() of the facade: the trait, or a userId that is an address
Email(m) ==
    Or(Find(m.traits, "email"),
       IF m.userId # <<>> /\ IsEmail(m.userId[1]) THEN Str(m.userId[1]) ELSE JsUndefined)

\* identify.created() of the facade
Created(m) ==
    Or(Find(m.traits, "createdAt"), Or(Find(m.traits, "created"), JsUndefined))

\* identify.phone() of the facade: the trait, or the first of traits.phones
Phone(m) ==
    LET one == Find(m.traits, "phone")
        multi == Find(m.traits, "phones")
    IN  IF Truthy(one) THEN one
        ELSE IF DOMAIN multi = {"arr"} /\ multi.arr # <<>> THEN Str(multi.arr[1])
        ELSE JsUndefined

\* traitAliases, in the order of its keys
traitAliases ==
    << <<"created", "$created">>, <<"createdAt", "$created">>, <<"email", "$email">>,
       <<"firstName", "$first_name">>, <<"lastName", "$last_name">>,
       <<"lastSeen", "$last_seen">>, <<"name", "$name">>, <<"username", "$username">>,
       <<"phone", "$phone">>, <<"token", "trait_token">> >>

\* inside traits(aliases) of the facade:
\* null == this[alias] ? this.proxy('traits.' + alias) : this[alias]()
AliasValue(m, alias) ==
    CASE alias = "created" -> Created(m)
      [] alias = "email" -> Email(m)
      [] alias = "firstName" -> FirstName(m)
      [] alias = "lastName" -> LastName(m)
      [] alias = "name" -> FullName(m)
      [] alias = "phone" -> Phone(m)
      [] OTHER -> Find(m.traits, alias)

\* one turn of the loop of traits(aliases):
\* if (null == value) continue; ret[aliases[alias]] = value; delete ret[alias]
SetAlias(ret, alias, value) ==
    IF IsNullish(value) THEN ret
    ELSE Delete(Put(ret, alias[2], value), alias[1])

RECURSIVE Aliased(_, _, _)
\* the loop of traits(aliases) from alias i on: a value that is not null goes
\* under the destination's name and the key spelt as the alias is deleted
Aliased(ret, m, i) ==
    IF i > Len(traitAliases) THEN ret
    ELSE Aliased(SetAlias(ret, traitAliases[i], AliasValue(m, traitAliases[i][1])),
                 m, i + 1)

\* identify.traits(aliases) of the facade: the traits, the id of the user, and
\* the aliases
Traits(m) ==
    Aliased(IF TruthyStr(m.userId) THEN Put(m.traits, "id", Str(m.userId[1]))
            ELSE m.traits,
            m, 1)

RECURSIVE DelAliases(_, _)
\* each(traitAliases, function(_, key){ object.del(traits, key, {normalizer}) })
DelAliases(traits, i) ==
    IF i > Len(traitAliases) THEN traits
    ELSE DelAliases(ObjectDelKeepDollar(traits, traitAliases[i][1]), i + 1)

\* if (traits.$created) traits.$created = formatDate(traits.$created)
FormatCreated(traits) ==
    IF Truthy(Get(traits, "$created"))
    THEN Put(traits, "$created",
             IF DOMAIN Get(traits, "$created") = {"date"}
             THEN formatDate(Get(traits, "$created").date)
             ELSE JsUndefined)
    ELSE traits

\* formatTraits(identify)
formatTraits(m) ==
    stringifyValues(FormatCreated(Delete(DelAliases(Traits(m), 1), "$name")))

\* message.active() of the facade: options.active, true when null or undefined
Active(m) == IF m.active = <<>> THEN TRUE ELSE m.active[1]

\* ignoreIp of identify
IdentifyIgnoreIp == TruthyBool(msg.ignoreIp) \/ TruthyBool(msg.mpIgnoreIp)

IgnoreTimeByFlag ==
    IF msg.ignoreTime # <<>> THEN msg.ignoreTime[1]
    ELSE IF msg.mpIgnoreTime # <<>> THEN msg.mpIgnoreTime[1]
    ELSE ~Active(msg)

\* ignoreTime of identify
ignoreTime == TruthyBool(msg.ignoreTime) \/ TruthyBool(msg.mpIgnoreTime) \/ ~Active(msg)

\* basePayload of identify
basePayload ==
    [ distinct_id |-> DistinctId, token |-> settings.token, time |-> Timestamp(msg),
      ip |-> IF IdentifyIgnoreIp THEN Num(0)
             ELSE IF TruthyStr(msg.ip) THEN Str(msg.ip[1]) ELSE Num(0),
      ignore_time |-> ignoreTime,
      mp_lib |-> "Segment: " \o msg.library ]

\* the fields every request of one identify shares
BaseFields == {"distinct_id", "token", "time", "ip", "ignore_time", "mp_lib"}

\* baseQuery of identify
baseQuery == Query(<<0>>, <<1>>, <<>>)

\* extend({ key: value }, base)
Extend(key, value, base) ==
    [f \in DOMAIN base \cup {key} |-> IF f \in DOMAIN base THEN base[f] ELSE value]

HasDeviceTokenAlways == TRUE

\* `if (deviceToken)`
HasDeviceToken == TruthyStr(msg.deviceToken)

RevenueIgnoreIpAlways == TRUE

\* ignoreIp of revenue: options.ignoreIp, true when undefined
RevenueIgnoreIp == msg.ignoreIp = <<>> \/ TruthyBool(msg.ignoreIp)

\* track.ip() as a value of a payload
Ip == IF msg.ip = <<>> THEN JsUndefined ELSE Str(msg.ip[1])

\* an optional string of the message as a value: undefined when it is absent
Value(x) == IF x = <<>> THEN JsUndefined ELSE Str(x[1])

RECURSIVE extend(_, _)
\* extend(target, source) of the package `extend`: the keys of source in their
\* order, a key whose value is undefined is skipped, one whose value is null is
\* copied
extend(target, source) ==
    IF source = <<>> THEN target
    ELSE extend(IF Head(source)[2] = JsUndefined THEN target
                ELSE Put(target, Head(source)[1], Head(source)[2]),
                Tail(source))

\* reject(obj): without the keys whose value is null or undefined
reject(o) == SelectSeq(o, LAMBDA kv : ~IsNullish(kv[2]))

\* track.properties() of the facade; track.revenue() reads properties.revenue,
\* and the track of a page has the category and the name of the page
Properties(m) ==
    (IF m.revenue = <<>> THEN <<>> ELSE << <<"revenue", Num(m.revenue[1])>> >>)
        \o m.properties
        \o (IF m.type \in {"page", "screen"} /\ TruthyStr(m.category)
            THEN << <<"category", Str(m.category[1])>> >> ELSE <<>>)
        \o (IF m.type \in {"page", "screen"} /\ TruthyStr(m.name)
            THEN << <<"name", Str(m.name[1])>> >> ELSE <<>>)

\* track.username() of the facade
Username(m) ==
    Or(Find(m.traits, "username"),
       Or(Find(Properties(m), "username"), Or(Value(m.userId), Value(m.sessionId))))

\* track.referrer() of the facade; the messages have no context.referrer and no
\* context.page
Referrer(m) == Find(Properties(m), "referrer")

\* parse(userAgent).browser.name of ua-parser-js
BrowserName(ua) == IF ua = "Mozilla/5.0 (Macintosh) Chrome/41.0" THEN Str("Chrome") ELSE JsUndefined

\* parse(userAgent).os.name of ua-parser-js
OsName(ua) == IF ua = "Mozilla/5.0 (Macintosh) Chrome/41.0" THEN Str("Mac OS") ELSE JsUndefined

\* mp_name_tag of formatProperties
NameTag(m) ==
    Or(FullName(m), Or(Email(m), Or(Value(m.userId), Value(m.sessionId))))

\* formatProperties(track, settings); of the context the messages carry
\* os.name only, so the other proxies of the context are undefined
formatProperties(m) ==
    LET properties == Properties(m)
        extended ==
            extend(properties,
                   << <<"token", Value(settings.token)>>,
                      <<"distinct_id", Or(Value(m.userId), Value(m.sessionId))>>,
                      <<"time", Num(Timestamp(m))>>,
                      <<"mp_lib", Str("Segment: " \o m.library)>>,
                      <<"$lib_version", JsNull>>,
                      <<"$search_engine", Find(properties, "searchEngine")>>,
                      <<"$referrer", Referrer(m)>>,
                      <<"$username", Username(m)>>,
                      <<"$os", Value(m.os)>>,
                      <<"$os_version", JsUndefined>>,
                      <<"$manufacturer", JsUndefined>>,
                      <<"$screen_dpi", JsUndefined>>,
                      <<"$screen_height", JsUndefined>>,
                      <<"$screen_width", JsUndefined>>,
                      <<"$bluetooth_enabled", JsUndefined>>,
                      <<"$has_telephone", JsUndefined>>,
                      <<"$carrier", JsUndefined>>,
                      <<"$app_version", JsUndefined>>,
                      <<"$wifi", JsUndefined>>,
                      <<"$brand", JsUndefined>>,
                      <<"$model", JsUndefined>>,
                      <<"$app_release", JsUndefined>>,
                      <<"ip", Value(m.ip)>> >>)
        deleted == ObjectDel(ObjectDel(ObjectDel(extended, "referrer"), "username"),
                             "searchEngine")
        tagged == Put(deleted, "mp_name_tag", NameTag(m))
        rejected == stringifyValues(reject(tagged))
    IN  IF TruthyStr(m.userAgent)
        THEN Put(Put(rejected, "$browser", BrowserName(m.userAgent[1])),
                 "$os", OsName(m.userAgent[1]))
        ELSE rejected

\* trait.charAt(0) !== '$', on the keys formatTraits can return
NoDollar(k) ==
    k \notin {"$created", "$email", "$first_name", "$last_name", "$last_seen", "$name",
              "$username", "$phone"}

\* superProperties(track, settings)
superProperties(m) ==
    LET traits == formatTraits(m) IN
    [i \in 1..Len(traits) |->
        IF settings.legacySuperProperties /\ NoDollar(traits[i][1])
        THEN <<"$" \o traits[i][1], traits[i][2]>>
        ELSE traits[i]]

\* payload of track: the event and its properties, as b64encode writes them
payload(m, ev) ==
    [ event |-> ev,
      properties |-> Json(extend(formatProperties(m), superProperties(m))) ]

\* formatRevenue(track, settings)
formatRevenue ==
    [ distinct_id |-> DistinctId, token |-> settings.token,
      fields |-> Json(<< <<"$ip", Ip>> >>),
      append |-> << <<"$transactions",
                      << <<"$time", formatDate(Timestamp(msg))>>,
                         <<"$amount", Num(msg.revenue[1])>> >> >> >> ]

RevenueDefined(x) == x # <<>>

\* `if (track.revenue())`
HasRevenue(x) == TruthyNum(x)

RECURSIVE Deliver(_, _, _, _, _)
RECURSIVE BatchCallback(_, _, _, _, _)
RECURSIVE BatchNext(_, _)
RECURSIVE BatchStart(_, _, _)
RECURSIVE BatchEnd(_, _, _)
RECURSIVE RunThunk(_, _, _)
RECURSIVE track(_, _, _)
RECURSIVE increment(_, _, _)

\* batch.end(cb)
BatchEnd(st, fns, cb) ==
    IF fns = <<>>
    THEN [st EXCEPT !.ticks = Append(@, [cont |-> cb, err |-> Null, res |-> Arr(<<>>), nargs |-> 2])]
    ELSE LET B == [ fns |-> fns, index |-> 0, pending |-> Len(fns), done |-> FALSE,
                    results |-> [i \in 1..Len(fns) |-> Undefined], cb |-> cb ]
         IN  BatchStart([st EXCEPT !.batches = Append(@, B)], Len(st.batches) + 1, 0)

\* the loop of end(): for (i = 0; i < fns.length; i++) { if (i == max) break; next(); }
BatchStart(st, b, i) ==
    IF i >= Len(st.batches[b].fns) \/ (~concurrency.inf /\ i = concurrency.n)
    THEN st
    ELSE BatchStart(BatchNext(st, b), b, i + 1)

\* next() of end(): run the next function, if one is left
BatchNext(st, b) ==
    LET i == st.batches[b].index
        st1 == [st EXCEPT !.batches[b].index = i + 1]
    IN  IF i >= Len(st.batches[b].fns) THEN st1
        ELSE RunThunk(st1, st.batches[b].fns[i + 1], Slot(b, i))

\* callback(err, res) that end() hands to function i of the Batch
BatchCallback(st, b, i, err, res) ==
    LET B == st.batches[b] IN
    IF B.done THEN st
    ELSE IF IsErr(err) /\ throws
    THEN Deliver([st EXCEPT !.batches[b].done = TRUE], B.cb, err, Undefined, 1)
    ELSE LET st1 == [st EXCEPT !.batches[b].results[i + 1] = res,
                               !.batches[b].pending = B.pending - 1]
         IN  IF B.pending - 1 # 0 THEN BatchNext(st1, b)
             ELSE Deliver(st1, B.cb, Null, Arr(st1.batches[b].results), 2)

\* the call cont(err, res)
Deliver(st, cont, err, res, nargs) ==
    CASE cont.k = "fn" ->
           [st EXCEPT !.cbs = Append(@, [err |-> err, res |-> res, nargs |-> nargs])]
      [] cont.k = "batch" -> BatchCallback(st, cont.b, cont.i, err, res)
      [] cont.k = "pageTrack" ->
           \* function(err, arr){ if (err) return done(err); done(null, arr[1]); }
           IF IsErr(err) THEN BatchCallback(st, cont.b, cont.i, err, Undefined)
           ELSE BatchCallback(st, cont.b, cont.i, Null, At(res, 1))
      [] cont.k = "group" ->
           \* function(err){ if (err) return fn(err); ... the user's $union ... }
           IF IsErr(err) THEN Deliver(st, Fn, err, Undefined, 1)
           ELSE Issue(st, Request("group.$union", "", "GET", "/engage",
                                  Query(<<0>>, <<1>>, <<>>),
                                  [ distinct_id |-> msg.userId, token |-> settings.token,
                                    union |-> Json(stringifyValues(
                                        << <<"groups", List(<<GroupId>>)>> >>)) ],
                                  TRUE, Fn))

\* one function of a Batch, called with its callback
RunThunk(st, th, cont) ==
    CASE th.f = "identify.$set" ->
           Issue(st, Request(th.f, "", "GET", "/engage", baseQuery,
                             Extend("set", Json(formatTraits(msg)), basePayload),
                             TRUE, cont))
      [] th.f = "identify.$union" ->
           Issue(st, Request(th.f, "", "GET", "/engage", baseQuery,
                             Extend("union",
                                    << <<"$ios_devices", List(msg.deviceToken)>> >>,
                                    basePayload),
                             TRUE, cont))
      [] th.f = "increment" -> increment(st, th.ev, cont)
      [] th.f = "post" ->
           Issue(st, SetContentLength(
                         Request("post", th.ev, "POST",
                                 IF shouldImport(msg) THEN "/import" ELSE "/track",
                                 Query(<<>>, <<1>>, settings.apiKey),
                                 payload(msg, th.ev),
                                 TRUE, cont),
                         0))
      [] th.f = "revenue" ->
           Issue(st, Request("revenue", th.ev, "GET", "/engage",
                             Query(IF RevenueIgnoreIp THEN <<0>> ELSE <<>>, <<1>>, <<>>),
                             formatRevenue, TRUE, cont))
      [] th.f \in {"$add", "$set"} ->
           Issue(st, Request(th.f, th.ev, "GET", "/engage", Query(<<0>>, <<1>>, <<>>),
                             [ distinct_id |-> msg.userId, token |-> settings.token,
                               mp_lib |-> "Segment.io",
                               op |-> Json(Increments(th.f, th.ev)) ],
                             TRUE, cont))
      [] th.f = "track" -> track(st, th.ev, PageSlot(cont.b, cont.i))

\* Mixpanel.prototype.increment
increment(st, ev, cont) ==
    IF ~getIncrements(ev) THEN SetImmediate(st, cont)
    ELSE IF ~TruthyStr(msg.userId) THEN SetImmediate(st, cont)
    ELSE BatchEnd(st, <<Thunk("$add", ev), Thunk("$set", ev)>>, cont)

\* Mixpanel.prototype.track, for the track call with event ev
track(st, ev, cont) ==
    BatchEnd(st,
             (IF settings.people THEN <<Thunk("increment", ev)>> ELSE <<>>)
                 \o <<Thunk("post", ev)>>
                 \o (IF HasRevenue(msg.revenue) THEN <<Thunk("revenue", ev)>> ELSE <<>>),
             cont)

\* the functions identify pushes on its Batch
IdentifyFns ==
    <<Thunk("identify.$set", "")>>
        \o (IF HasDeviceToken THEN <<Thunk("identify.$union", "")>> ELSE <<>>)

IdentifyAlways(st, cont) == BatchEnd(st, IdentifyFns, cont)

\* Mixpanel.prototype.identify
identify(st, cont) ==
    IF ~settings.people THEN SetImmediate(st, cont)
    ELSE BatchEnd(st, IdentifyFns, cont)

PageStoppingAfterAll(st, cont) ==
    BatchEnd(st,
             IF settings.trackAllPages THEN <<Thunk("track", PageEvent(<<>>))>>
             ELSE (IF TruthyStr(msg.category) /\ settings.trackCategorizedPages
                   THEN <<Thunk("track", PageEvent(msg.category))>> ELSE <<>>)
                  \o (IF TruthyStr(fullName) /\ settings.trackNamedPages
                      THEN <<Thunk("track", PageEvent(fullName))>> ELSE <<>>),
             cont)

\* Mixpanel.prototype.page, which is Mixpanel.prototype.screen too
page(st, cont) ==
    BatchEnd(st,
             (IF settings.trackAllPages THEN <<Thunk("track", PageEvent(<<>>))>> ELSE <<>>)
                 \o (IF TruthyStr(msg.category) /\ settings.trackCategorizedPages
                     THEN <<Thunk("track", PageEvent(msg.category))>> ELSE <<>>)
                 \o (IF TruthyStr(fullName) /\ settings.trackNamedPages
                     THEN <<Thunk("track", PageEvent(fullName))>> ELSE <<>>),
             cont)

AliasEndpointByAge == IF shouldImport(msg) THEN "/import" ELSE "/track"

\* .post('/track') of alias
AliasEndpoint == "/track"

\* Mixpanel.prototype.alias
alias(st, cont) ==
    Issue(st, SetContentLength(
                  Request("alias", "$create_alias", "POST", AliasEndpoint,
                          Query(<<0>>, <<1>>, settings.apiKey),
                          [ event |-> "$create_alias", distinct_id |-> msg.previousId,
                            alias |-> msg.userId, token |-> settings.token ],
                          TRUE, cont),
                  0))

\* Mixpanel.prototype.group, once `identify.library()` has been evaluated
group(st, cont) ==
    IF ~settings.people THEN SetImmediate(st, cont)
    ELSE Issue(st, Request("group.$set", "", "GET", "/engage", Query(<<0>>, <<1>>, <<>>),
                           [ distinct_id |-> <<GroupId>>, token |-> settings.token,
                             time |-> Timestamp(msg),
                             set |-> Json(stringifyValues(GroupTraitsSent)),
                             ip |-> Num(0), ignore_time |-> FALSE,
                             mp_lib |-> "Segment: " \o BoundLibrary ],
                           FALSE, GroupHandler))

-----------------------------------------------------------------------------
(* Responses *)

\* what the transport can answer: a transport-level error, HTTP 200 with a body
\* whose status is falsy (and an error message), HTTP 200 with a truthy status
\* what body.error says when the destination rejects a request; the second is
\* what it says of a request that carries a bad api_key
InvalidRequest == "distinct_id, missing or empty"

InvalidApiKey == "invalid api key"

\* an answer: a transport error, a 200 whose body has status 0 and an error, or
\* a 200 whose body has status 1
Outcome(status, error) == [status |-> status, error |-> error]

\* the answers call c can get; only the event endpoints take an api_key
Outcomes(c) ==
    { Outcome("error", ""), Outcome("ok", ""), Outcome("rejected", InvalidRequest) }
    \cup (IF calls[c].method = "POST" THEN {Outcome("rejected", InvalidApiKey)} ELSE {})

IsFailure(o) == o \in {"error", "rejected"}

\* this.handle(fn): fn(err) on a transport error (or a status that is not 2xx),
\* fn(null, res) otherwise; it does not look at the body
\* the error the HTTP client reports for call c
TransportError(c) == Err(c, "transport", "socket hang up")

HandleSwallowingErrors(c, o) == <<Null, Res(c)>>

Handle(c, o) ==
    IF o.status = "error" THEN <<TransportError(c), Undefined>> ELSE <<Null, Res(c)>>

\* self.error(message)
SelfError(c, message) == Err(c, "rejected", message)

ParseResponseIgnoringStatus(c, o) == Handle(c, o)

\* Mixpanel.prototype._parseResponse(fn)
ParseResponse(c, o) ==
    IF IsErr(Handle(c, o)[1]) THEN <<Handle(c, o)[1], Undefined>>
    ELSE IF o.status = "rejected" THEN <<SelfError(c, o.error), Undefined>>
    ELSE <<Null, Handle(c, o)[2]>>

\* the handler that .end() was given for call c is called with outcome o;
\* passed records what it hands on
Handler(st, c, o) ==
    LET r == IF st.calls[c].parsed THEN ParseResponse(c, o) ELSE Handle(c, o)
    IN  Deliver([st EXCEPT !.calls[c].passed = <<[err |-> r[1], res |-> r[2]]>>],
                st.calls[c].cont, r[1], r[2], IF IsErr(r[1]) THEN 1 ELSE 2)

-----------------------------------------------------------------------------
(* The state machine *)

Set(st) ==
    /\ calls' = st.calls
    /\ batches' = st.batches
    /\ ticks' = st.ticks
    /\ cbs' = st.cbs

Init ==
    /\ msg \in Messages
    /\ settings \in SettingsFor(msg)
    /\ phase = "new"
    /\ calls = <<>>
    /\ firstFailure = 0
    /\ batches = <<>>
    /\ ticks = <<>>
    /\ cbs = <<>>

\* validation fails: the message never reaches the operation
Reject ==
    /\ phase = "new"
    /\ Validate(msg, settings) # ""
    /\ phase' = "invalid"
    /\ UNCHANGED <<msg, settings, calls, firstFailure, batches, ticks, cbs>>

Accepted(type) ==
    /\ phase = "new"
    /\ msg.type = type
    /\ Validate(msg, settings) = ""

Identify ==
    /\ Accepted("identify")
    /\ phase' = "running"
    /\ Set(identify(Cur, Fn))
    /\ UNCHANGED <<msg, settings, firstFailure>>

Track ==
    /\ Accepted("track")
    /\ phase' = "running"
    /\ Set(track(Cur, msg.event, Fn))
    /\ UNCHANGED <<msg, settings, firstFailure>>

Page ==
    /\ Accepted("page")
    /\ phase' = "running"
    /\ Set(page(Cur, Fn))
    /\ UNCHANGED <<msg, settings, firstFailure>>

Screen ==
    /\ Accepted("screen")
    /\ phase' = "running"
    /\ Set(page(Cur, Fn))
    /\ UNCHANGED <<msg, settings, firstFailure>>

Alias ==
    /\ Accepted("alias")
    /\ phase' = "running"
    /\ Set(alias(Cur, Fn))
    /\ UNCHANGED <<msg, settings, firstFailure>>

\* group reads the free identifier `identify` (line 310), which nothing in the
\* module declares: evaluating it throws a ReferenceError unless the host's
\* global object binds it.  With settings.people false group returns before.
Group ==
    /\ Accepted("group")
    /\ \E identifyBound \in BOOLEAN :
         IF settings.people /\ ~identifyBound
         THEN /\ phase' = "thrown"
              /\ UNCHANGED <<calls, batches, ticks, cbs>>
         ELSE /\ phase' = "running"
              /\ Set(group(Cur, Fn))
    /\ UNCHANGED <<msg, settings, firstFailure>>

\* the response of a request in flight arrives
Respond ==
    /\ phase = "running"
    /\ \E c \in 1..Len(calls) : \E o \in Outcomes(c) :
         /\ calls[c].status = "inflight"
         /\ Set(Handler([Cur EXCEPT !.calls[c].status = o.status,
                                    !.calls[c].bodyError = o.error], c, o))
         /\ firstFailure' = IF firstFailure = 0 /\ IsFailure(o.status) THEN c
                            ELSE firstFailure
    /\ UNCHANGED <<msg, settings, phase>>

\* the event loop runs the oldest setImmediate callback
Tick ==
    /\ phase = "running"
    /\ ticks # <<>>
    /\ LET t == Head(ticks)
       IN  Set(Deliver([Cur EXCEPT !.ticks = Tail(ticks)], t.cont, t.err, t.res, t.nargs))
    /\ UNCHANGED <<msg, settings, phase, firstFailure>>

Next ==
    \/ Reject
    \/ Identify
    \/ Track
    \/ Page
    \/ Screen
    \/ Alias
    \/ Group
    \/ Respond
    \/ Tick

Spec == Init /\ [][Next]_vars

-----------------------------------------------------------------------------
(* Vocabulary of the properties *)

CallKinds == [c \in 1..Len(calls) |-> calls[c].kind]

InFlight == {c \in 1..Len(calls) : calls[c].status = "inflight"}

Failed(c) == c <= Len(calls) /\ IsFailure(calls[c].status)

AllSucceeded == \A c \in 1..Len(calls) : calls[c].status = "ok"

\* fn was invoked exactly once, with the error of call c
CalledBackWithErrorOf(c) == Len(cbs) = 1 /\ IsErr(cbs[1].err) /\ cbs[1].err.call = c

\* fn was invoked exactly once, without an error
CalledBackWithSuccess == Len(cbs) = 1 /\ ~IsErr(cbs[1].err)

NoApiKey == settings.apiKey = <<>> \/ settings.apiKey = <<"">>

HasToken == settings.token # <<>> /\ settings.token # <<"">>

\* the message was stopped by validation, or not dispatched yet: no request
NeverDispatched == phase \in {"new", "invalid"} /\ calls = <<>>

-----------------------------------------------------------------------------
C2_IdentifyPeopleOff ==
    (msg.type = "identify" /\ ~settings.people) =>
        /\ calls = <<>>
        /\ Len(cbs) <= 1
        /\ \A i \in 1..Len(cbs) : cbs[i].nargs = 0 /\ ~IsErr(cbs[i].err)
        /\ (phase = "running" /\ ticks = <<>>) => Len(cbs) = 1

C2_Witness ==
    msg.type = "identify" /\ ~settings.people /\ phase = "running" /\ Len(cbs) = 1

(* C3: a track that passed validation and whose requests all succeeded has  *)
(* issued exactly: the two increment calls iff people is set, increments    *)
(* contains the event name and the event has a userId; the primary post;    *)
(* the revenue call iff the revenue is defined and not zero.                *)
C3_ExpectedKinds ==
    (IF settings.people /\ Contains(lowercase(settings.increments), ToLowerCase(msg.event))
        /\ msg.userId # <<>>
     THEN <<"$add", "$set">> ELSE <<>>)
    \o <<"post">>
    \o (IF msg.revenue # <<>> /\ msg.revenue[1] # 0 THEN <<"revenue">> ELSE <<>>)

C3_TrackCalls ==
    (msg.type = "track" /\ phase = "running" /\ CalledBackWithSuccess) =>
        /\ AllSucceeded
        /\ CallKinds = C3_ExpectedKinds
        /\ (msg.revenue = <<999>> /\ settings.people /\ settings.increments = <<>>)
              => Len(calls) = 2

C3_Witness ==
    /\ msg.type = "track" /\ phase = "running" /\ CalledBackWithSuccess
    /\ CallKinds = <<"$add", "$set", "post", "revenue">>

(* C4: when a constituent call of a track has failed, the callback has      *)
(* received an error, that of the first failure observed, and no success;   *)
(* and no call of the operation is issued once a failure has been observed. *)
C4_TrackFailure ==
    /\ [](msg.type = "track" /\ firstFailure # 0 => CalledBackWithErrorOf(firstFailure))
    /\ [][msg.type = "track" /\ firstFailure # 0 => Len(calls') = Len(calls)]_vars

C4_Witness ==
    /\ msg.type = "track" /\ Len(calls) = 4
    /\ Failed(3) /\ Failed(1) /\ firstFailure = 3 /\ CalledBackWithErrorOf(3)

(* C5, as stated: in an identify with people set and a device push-token,   *)
(* when the first call ($set) has failed the second call ($union) is never  *)
(* issued and the callback has received the $set call's error.              *)
C5_UnionNotIssuedAfterSetFailure ==
    (msg.type = "identify" /\ settings.people /\ msg.deviceToken # <<>> /\ Failed(1))
        => (Len(calls) = 1 /\ CalledBackWithErrorOf(1))

(* C5, amended: in an identify with people set and a device push-token the  *)
(* $union call is issued together with the $set call, before any response   *)
(* is observed; when the $set call is the first to fail the callback has    *)
(* received its error, and once the $set call has failed the callback has   *)
(* been invoked once, with an error.                                        *)
C5_UnionIssuedWithSet ==
    (msg.type = "identify" /\ settings.people /\ msg.deviceToken # <<>> /\ phase = "running")
        => /\ CallKinds = <<"identify.$set", "identify.$union">>
           /\ firstFailure = 1 => CalledBackWithErrorOf(1)
           /\ Failed(1) => (Len(cbs) = 1 /\ IsErr(cbs[1].err))

C5_Witness ==
    /\ msg.type = "identify" /\ settings.people /\ msg.deviceToken # <<>>
    /\ Failed(1) /\ calls[2].status = "inflight" /\ CalledBackWithErrorOf(1)

(* C6, as stated: within an identify or a track (with its increment and its *)
(* revenue) a call is issued only after every earlier call of the operation *)
(* has completed successfully, so at most one call is in flight.            *)
C6_OneCallInFlight ==
    msg.type \in {"identify", "track"} =>
        /\ Cardinality(InFlight) <= 1
        /\ \A c \in 2..Len(calls) : calls[c - 1].status = "ok"

\* the place of a call in the fixed order of its operation
C6_Rank(kind) ==
    CASE kind = "identify.$set" -> 1
      [] kind = "identify.$union" -> 2
      [] kind = "$add" -> 1
      [] kind = "$set" -> 2
      [] kind = "post" -> 3
      [] kind = "revenue" -> 4
      [] OTHER -> 0

(* C6, amended: within an identify or a track the calls are issued in a     *)
(* fixed order ($set, $union; $add, $set, event post, revenue) but all      *)
(* together when the operation is invoked: none waits for an earlier call   *)
(* to complete, none is issued after the invocation, and up to two calls of *)
(* an identify and four calls of a track are in flight at once.             *)
C6_IssuedTogetherInOrder ==
    /\ [](msg.type \in {"identify", "track"} =>
            /\ \A c \in 2..Len(calls) : C6_Rank(calls[c - 1].kind) < C6_Rank(calls[c].kind)
            /\ Cardinality(InFlight) <= (IF msg.type = "identify" THEN 2 ELSE 4))
    /\ [][msg.type \in {"identify", "track"} /\ phase = "running"
              => Len(calls') = Len(calls)]_vars

C6_Witness ==
    msg.type = "track" /\ Cardinality(InFlight) = 4 /\ Len(calls) = 4

(* C7: a track message is rejected by validation, before any HTTP call,     *)
(* when apiKey is absent and the message is older than 5 days; it is valid  *)
(* when apiKey is absent and its age is at most 5 days, and when apiKey is  *)
(* present and its age is under 5 years.                                    *)
C7_TrackApiKeyRule ==
    (msg.type = "track" /\ HasToken) =>
        /\ (NoApiKey /\ Age(msg) > FiveDays) => NeverDispatched
        /\ (NoApiKey /\ Age(msg) <= FiveDays) => phase # "invalid"
        /\ (~NoApiKey /\ Age(msg) < FiveYears) => phase # "invalid"

C7_Witness ==
    /\ msg.type = "track" /\ HasToken /\ NoApiKey
    /\ Age(msg) = FiveDays + 1 /\ phase = "invalid"

(* C8: a screen message is rejected by validation, before any HTTP call,    *)
(* when apiKey is absent and the message is older than 5 days.              *)
C8_ScreenApiKeyRule ==
    (msg.type = "screen" /\ NoApiKey /\ Age(msg) > FiveDays) => NeverDispatched

(* C9: every message of any type whose age exceeds 5 years is rejected by   *)
(* validation before any HTTP call, with or without an apiKey.              *)
C9_FiveYearsRule ==
    Age(msg) > FiveYears => NeverDispatched

(* C10: a message with settings.token missing or empty is rejected by       *)
(* validation and no HTTP call is ever issued for it; a message with all    *)
(* settings given and a current timestamp is valid.                         *)
C10_TokenRule ==
    /\ ~HasToken => NeverDispatched
    /\ (HasToken /\ ~NoApiKey /\ Age(msg) = 0) => phase # "invalid"

C10_Witness ==
    settings.token = <<"">> /\ phase = "invalid"

(***************************************************************************)
(* C11: the event call of a track or screen message goes to the import     *)
(* endpoint exactly when the message is strictly more than five days old,  *)
(* and to the real-time endpoint otherwise: a message without a timestamp, *)
(* or one five days minus a second old, goes to /track, one five days plus *)
(* a second old goes to /import.                                           *)
(***************************************************************************)
C11_PrimaryEndpoint ==
    msg.type \in {"track", "screen"} =>
        \A c \in 1..Len(calls) :
            calls[c].kind = "post" =>
                /\ calls[c].path = "/import" <=> Now - Timestamp(msg) > FiveDays
                /\ calls[c].path = "/track" <=> Now - Timestamp(msg) <= FiveDays
                /\ msg.timestamp = <<>> => calls[c].path = "/track"
                /\ msg.timestamp = <<Now - (FiveDays - 1)>> => calls[c].path = "/track"
                /\ msg.timestamp = <<Now - (FiveDays + 1)>> => calls[c].path = "/import"

C11_Witness ==
    /\ msg.type = "screen"
    /\ msg.timestamp = <<Now - (FiveDays + 1)>>
    /\ \E c \in 1..Len(calls) : calls[c].kind = "post" /\ calls[c].path = "/import"

(***************************************************************************)
(* C12: a group call (people profiles enabled) whose requests all succeed  *)
(* has issued exactly two /engage requests when it comes to rest: first    *)
(* the group entity, distinct id "group." + groupId, $set of the traits    *)
(* with name moved to $name and isGroup true, $ignore_time false; then,    *)
(* only after the first has succeeded, the user's profile with $union of   *)
(* the group id; and the callback has been invoked once, with success.     *)
(***************************************************************************)
C12_GroupTwoRequests ==
    /\ ( /\ msg.type = "group" /\ settings.people
         /\ phase \notin {"new", "invalid"}
         /\ AllSucceeded /\ InFlight = {} /\ ticks = <<>> )
       => /\ Len(calls) = 2
          /\ calls[1].kind = "group.$set" /\ calls[1].path = "/engage"
          /\ calls[1].data.distinct_id = <<"group." \o msg.groupId>>
          /\ "name" \notin Keys(calls[1].data.set)
          /\ Get(calls[1].data.set, "$name") = Get(msg.traits, "name")
          /\ Get(calls[1].data.set, "isGroup") = Bool(TRUE)
          /\ calls[1].data.ignore_time = FALSE
          /\ calls[2].kind = "group.$union" /\ calls[2].path = "/engage"
          /\ calls[2].data.distinct_id = msg.userId
          /\ Get(calls[2].data.union, "groups") = List(<<"group." \o msg.groupId>>)
          /\ CalledBackWithSuccess
    /\ (msg.type = "group" /\ Len(calls) >= 2) => calls[1].status = "ok"
    /\ (msg.type = "group" /\ cbs # <<>> /\ ~IsErr(cbs[1].err)) =>
           (Len(calls) = 2 /\ calls[2].status = "ok") \/ ~settings.people

(***************************************************************************)
(* C13: an identify with people profiles enabled always issues the $set    *)
(* request; it issues that request alone when context.device.token is      *)
(* absent and exactly one more when it is present, which carries $union of *)
(* the device token in $ios_devices and the same $distinct_id, $token,     *)
(* $time, $ip, $ignore_time and mp_lib as the first.                       *)
(***************************************************************************)
C13_IdentifyCalls ==
    (msg.type = "identify" /\ settings.people /\ phase = "running") =>
        /\ Len(calls) = IF msg.deviceToken = <<>> THEN 1 ELSE 2
        /\ calls[1].kind = "identify.$set" /\ "set" \in DOMAIN calls[1].data
        /\ msg.deviceToken # <<>> =>
               /\ calls[2].kind = "identify.$union"
               /\ calls[2].data.union = << <<"$ios_devices", List(msg.deviceToken)>> >>
               /\ \A f \in BaseFields : calls[2].data[f] = calls[1].data[f]
               /\ BaseFields \subseteq DOMAIN calls[1].data

C13_Witness ==
    /\ msg.type = "identify" /\ msg.ip # <<>> /\ ~IdentifyIgnoreIp
    /\ Len(calls) = 2 /\ calls[2].kind = "identify.$union"
    /\ calls[2].data.ip = Str(msg.ip[1])
    /\ AllSucceeded /\ CalledBackWithSuccess

\* the event is listed in settings.increments and has a userId
C14_Listed ==
    /\ \E i \in 1..Len(settings.increments) :
           ToLowerCase(settings.increments[i]) = ToLowerCase(msg.event)
    /\ msg.userId # <<>>

\* the requests of one kind
C14_Calls(type) == {c \in 1..Len(calls) : calls[c].kind = type}

(***************************************************************************)
(* C14: the increment step of a track (people profiles enabled) issues     *)
(* exactly two requests, one with $add {event: 1} and one with $set        *)
(* {"Last " + event: the formatted timestamp}, when settings.increments    *)
(* holds the event name, compared without regard to case, and the event    *)
(* has a userId; in every other case it issues no request and calls back   *)
(* without an error: the track then succeeds when its other requests do.   *)
(***************************************************************************)
C14_Increment ==
    (msg.type = "track" /\ settings.people /\ phase = "running") =>
        IF C14_Listed
        THEN /\ Cardinality(C14_Calls("$add")) = 1 /\ Cardinality(C14_Calls("$set")) = 1
             /\ \A c \in C14_Calls("$add") : calls[c].data.op = << <<msg.event, Num(1)>> >>
             /\ \A c \in C14_Calls("$set") :
                    calls[c].data.op =
                        << <<"Last " \o msg.event, formatDate(Timestamp(msg))>> >>
        ELSE /\ C14_Calls("$add") \cup C14_Calls("$set") = {}
             /\ \A i \in 1..Len(cbs) : IsErr(cbs[i].err) => firstFailure # 0
             /\ (ticks = <<>> /\ firstFailure = 0) =>
                    batches[1].pending < Len(batches[1].fns)
             /\ (ticks = <<>> /\ InFlight = {} /\ AllSucceeded) => CalledBackWithSuccess

C14_Witness ==
    /\ msg.type = "track" /\ settings.people /\ msg.event = "Purchased"
    /\ settings.increments = <<"PURCHASED">>
    /\ Cardinality(C14_Calls("$add") \cup C14_Calls("$set")) = 2
    /\ AllSucceeded /\ CalledBackWithSuccess

\* the event calls of the operation, one for each track call it makes
Posts == {c \in 1..Len(calls) : calls[c].kind = "post"}

IsPage == msg.type \in {"page", "screen"}

(***************************************************************************)
(* C15: for a page or screen with consolidatedPageCalls and trackAllPages  *)
(* unset, the number of track calls is (1 if trackCategorizedPages is set  *)
(* and the message has a category, else 0) + (1 if trackNamedPages is set  *)
(* and the message has a name, else 0): one for a categorized page without *)
(* a name, two when both flags are set and both are present; and when no   *)
(* track call is due (all flags false, say) no request is issued and the   *)
(* callback is invoked with success.                                       *)
(***************************************************************************)
C15_PageCalls ==
    ( /\ IsPage /\ phase = "running"
      /\ ~settings.consolidatedPageCalls /\ ~settings.trackAllPages ) =>
        LET categorized == IF settings.trackCategorizedPages /\ msg.category # <<>>
                           THEN 1 ELSE 0
            named == IF settings.trackNamedPages /\ msg.name # <<>> THEN 1 ELSE 0
        IN  /\ Cardinality(Posts) = categorized + named
            /\ (settings.trackCategorizedPages /\ ~settings.trackNamedPages
                   /\ msg.category # <<>> /\ msg.name = <<>>) => Cardinality(Posts) = 1
            /\ (settings.trackCategorizedPages /\ settings.trackNamedPages
                   /\ msg.category # <<>> /\ msg.name # <<>>) => Cardinality(Posts) = 2
            /\ categorized + named = 0 =>
                   /\ calls = <<>>
                   /\ \A i \in 1..Len(cbs) : ~IsErr(cbs[i].err)
                   /\ ticks = <<>> => CalledBackWithSuccess

C15_Witness ==
    /\ IsPage /\ ~settings.consolidatedPageCalls /\ ~settings.trackAllPages
    /\ settings.trackCategorizedPages /\ settings.trackNamedPages
    /\ msg.category # <<>> /\ msg.name # <<>>
    /\ Cardinality(Posts) = 2 /\ AllSucceeded /\ CalledBackWithSuccess

\* the event name of a page or screen that is given no name
DefaultEvent == IF msg.type = "screen" THEN "Loaded a Screen" ELSE "Loaded a Page"

(***************************************************************************)
(* C16, as claimed: for a page or screen with trackAllPages set and        *)
(* consolidatedPageCalls unset, exactly one track call is emitted, with    *)
(* the default event name, whatever trackCategorizedPages and              *)
(* trackNamedPages are and whether or not there is a category or a name.   *)
(***************************************************************************)
C16_TrackAllOnly ==
    ( /\ IsPage /\ phase = "running"
      /\ settings.trackAllPages /\ ~settings.consolidatedPageCalls ) =>
        /\ Cardinality(Posts) = 1
        /\ \A c \in Posts : calls[c].ev = DefaultEvent

(***************************************************************************)
(* C16, amended: for a page or screen with trackAllPages set and           *)
(* consolidatedPageCalls unset, exactly one track call with the default    *)
(* event name is emitted, before any other; the categorized and the named  *)
(* call are emitted besides it when their flag is set and the category or  *)
(* name is present, so that 1 + categorized + named track calls result.    *)
(***************************************************************************)
C16_TrackAllFirst ==
    ( /\ IsPage /\ phase = "running"
      /\ settings.trackAllPages /\ ~settings.consolidatedPageCalls ) =>
        /\ Cardinality({c \in Posts : calls[c].ev = DefaultEvent}) = 1
        /\ \A c, d \in Posts : calls[c].ev = DefaultEvent => c <= d
        /\ Cardinality(Posts) =
               1 + (IF settings.trackCategorizedPages /\ msg.category # <<>> THEN 1 ELSE 0)
                 + (IF settings.trackNamedPages /\ msg.name # <<>> THEN 1 ELSE 0)

C16_Witness ==
    /\ IsPage /\ settings.trackAllPages /\ ~settings.consolidatedPageCalls
    /\ settings.trackCategorizedPages /\ settings.trackNamedPages
    /\ msg.category # <<>> /\ msg.name # <<>>
    /\ Cardinality(Posts) = 3 /\ AllSucceeded /\ CalledBackWithSuccess

(***************************************************************************)
(* C17: for a page or screen with consolidatedPageCalls set, exactly one   *)
(* track call is emitted, with the generic event name, and no other branch *)
(* adds a call, whatever trackAllPages, trackCategorizedPages and          *)
(* trackNamedPages are.                                                    *)
(***************************************************************************)
C17_ConsolidatedOnly ==
    (IsPage /\ phase = "running" /\ settings.consolidatedPageCalls) =>
        /\ Cardinality(Posts) = 1
        /\ \A c \in Posts : calls[c].ev = DefaultEvent

\* the requests whose handler is _parseResponse and that have been answered
Parsed == {c \in 1..Len(calls) : calls[c].parsed /\ calls[c].status # "inflight"}

(***************************************************************************)
(* C18: for every request answered through _parseResponse: a transport     *)
(* error is handed on as it is; a response whose body has no truthy status *)
(* gives an error made from body.error and no result; a response whose     *)
(* body has a truthy status, and no other, gives no error and the response *)
(* as the result.                                                          *)
(***************************************************************************)
C18_ParseResponse ==
    \A c \in Parsed :
        LET p == calls[c].passed[1] IN
        /\ calls[c].status = "error" => p.err = TransportError(c) /\ p.res = Undefined
        /\ calls[c].status = "rejected" =>
               /\ IsErr(p.err) /\ p.err # TransportError(c)
               /\ p.err.message = calls[c].bodyError
               /\ p.res = Undefined
        /\ calls[c].status = "ok" => p.err = Null /\ p.res = Res(c)
        /\ ~IsErr(p.err) => calls[c].status = "ok"

C18_Witness ==
    \E c \in Parsed :
        /\ calls[c].status = "rejected" /\ calls[c].bodyError = InvalidRequest
        /\ CalledBackWithErrorOf(c) /\ cbs[1].err.message = InvalidRequest

\* the message speaks of the API key
MatchesApiKey(message) == message = InvalidApiKey

(***************************************************************************)
(* C19: the error made for a rejection (a 200 whose body has no truthy     *)
(* status) is an authorization failure, told apart from the others, when   *)
(* body.error speaks of the API key, and the generic bad request in every  *)
(* other case.                                                             *)
(***************************************************************************)
C19_Classified ==
    \A c \in Parsed :
        calls[c].status = "rejected" =>
            /\ IsErr(calls[c].passed[1].err)
            /\ calls[c].passed[1].err.cls =
                   IF MatchesApiKey(calls[c].bodyError) THEN "authorization" ELSE "rejected"

(***************************************************************************)
(* C20: alias issues exactly one request and never another: a POST to the  *)
(* real-time endpoint /track, whatever the age of the message, with event  *)
(* "$create_alias", distinct_id = previousId, alias = userId, token =      *)
(* settings.token, the query api_key = settings.apiKey, ip = 0 and         *)
(* verbose = 1, and Content-Length 0.                                      *)
(***************************************************************************)
C20_Alias ==
    (msg.type = "alias" /\ phase = "running") =>
        /\ Len(calls) = 1
        /\ calls[1].method = "POST" /\ calls[1].path = "/track"
        /\ calls[1].data.event = "$create_alias"
        /\ calls[1].data.distinct_id = msg.previousId
        /\ calls[1].data.alias = msg.userId
        /\ calls[1].data.token = settings.token
        /\ calls[1].query = [ip |-> <<0>>, verbose |-> <<1>>, api_key |-> settings.apiKey]
        /\ calls[1].contentLength = <<0>>

C20_Witness ==
    /\ msg.type = "alias" /\ Now - Timestamp(msg) > FiveDays
    /\ Len(calls) = 1 /\ calls[1].path = "/track" /\ calls[1].status = "ok"
    /\ CalledBackWithSuccess

(***************************************************************************)
(* C21, as claimed: every request of every operation carries the query     *)
(* parameters ip = 0 and verbose = 1.                                      *)
(***************************************************************************)
C21_IpAndVerbose ==
    \A c \in 1..Len(calls) : calls[c].query.ip = <<0>> /\ calls[c].query.verbose = <<1>>

(***************************************************************************)
(* C21, amended: every request carries verbose = 1; the requests of        *)
(* identify, increment, alias and group carry ip = 0; the event post of    *)
(* track carries no ip parameter; the revenue request carries ip = 0       *)
(* unless the message gives options.ignoreIp a falsy value.                *)
(***************************************************************************)
C21_VerboseAndIpWhereSet ==
    \A c \in 1..Len(calls) :
        /\ calls[c].query.verbose = <<1>>
        /\ calls[c].kind = "post" => calls[c].query.ip = <<>>
        /\ calls[c].kind = "revenue" =>
               calls[c].query.ip = IF msg.ignoreIp = <<FALSE>> THEN <<>> ELSE <<0>>
        /\ calls[c].kind \notin {"post", "revenue"} => calls[c].query.ip = <<0>>

C21_Witness ==
    /\ msg.type = "track" /\ msg.ignoreIp = <<TRUE>> /\ settings.people
    /\ CallKinds = <<"$add", "$set", "post", "revenue">>
    /\ calls[4].query.ip = <<0>> /\ calls[3].query.ip = <<>>
    /\ AllSucceeded /\ CalledBackWithSuccess

\* the keys of the alias table the claim names, each with its destination key
C22_Keys ==
    { <<"firstName", "$first_name">>, <<"lastName", "$last_name">>, <<"email", "$email">>,
      <<"phone", "$phone">>, <<"username", "$username">>, <<"created", "$created">>,
      <<"createdAt", "$created">>, <<"name", "$name">>, <<"token", "trait_token">> }

\* the traits of the message have a value that is not null under the key k,
\* in any spelling
C22_Present(k) ==
    \E i \in 1..Len(msg.traits) :
        /\ NormalizeKeepDollar(msg.traits[i][1]) = NormalizeKeepDollar(k)
        /\ ~IsNullish(msg.traits[i][2])

\* the $set requests of an identify
C22_Sets == {c \in 1..Len(calls) : calls[c].kind = "identify.$set"}

\* no key of the object o is a spelling of the key k
C22_NoGeneric(o, k) == \A j \in Keys(o) : NormalizeKeepDollar(j) # NormalizeKeepDollar(k)

C23_PeopleProperties ==
    \A c \in C22_Sets :
        IF settings.setAllTraitsByDefault
        THEN calls[c].data.set = Json(formatTraits(msg))
        ELSE \A k \in Keys(calls[c].data.set) :
                 \E i \in 1..Len(settings.peopleProperties) :
                     ToLowerCase(settings.peopleProperties[i]) = ToLowerCase(k)

(***************************************************************************)
(* C24: an operation that passed validation invokes its callback once all  *)
(* its requests are answered (no request is in flight and no callback is   *)
(* waiting for the event loop), and never more than once; it invokes it    *)
(* with success only when every request it issued has succeeded, and with  *)
(* an error as soon as one request has failed.                             *)
(***************************************************************************)
C24_CallbackOnce ==
    /\ Len(cbs) <= 1
    /\ (phase \in {"running", "thrown"} /\ InFlight = {} /\ ticks = <<>>) => Len(cbs) = 1
    /\ (cbs # <<>> /\ ~IsErr(cbs[1].err)) => AllSucceeded
    /\ firstFailure # 0 => (Len(cbs) = 1 /\ IsErr(cbs[1].err))

\* the people calls that carry the revenue of a track
Revenues == {c \in 1..Len(calls) : calls[c].kind = "revenue"}

(* C25: when the active flag of a track is false, the revenue call carries the
   ignore-time flag, and with people disabled the revenue call is still the
   second request of the track. *)
C25_RevenueIgnoreTime ==
    (msg.type = "track" /\ ~Active(msg)) =>
        /\ \A c \in Revenues : Get(calls[c].data.fields, "$ignore_time") = Bool(TRUE)
        /\ (~settings.people /\ Revenues # {}) => CallKinds = <<"post", "revenue">>

\* the people calls of identify
IdentifyCalls == {c \in 1..Len(calls) : calls[c].kind \in {"identify.$set", "identify.$union"}}

\* an override flag of the context is set, to true or to false
OverrideSet == msg.ignoreTime # <<>> \/ msg.mpIgnoreTime # <<>>

\* an override flag of the context is true
OverrideTrue == TruthyBool(msg.ignoreTime) \/ TruthyBool(msg.mpIgnoreTime)

(* C26, as stated: $ignore_time of identify equals the value of the context
   override flag whenever one of the override flags is set, to true or to
   false, and equals the negation of active() only when neither is set. *)
C26_IgnoreTimeIsFlag ==
    \A c \in IdentifyCalls :
        /\ msg.ignoreTime # <<>> => calls[c].data.ignore_time = msg.ignoreTime[1]
        /\ (msg.ignoreTime = <<>> /\ msg.mpIgnoreTime # <<>>) =>
               calls[c].data.ignore_time = msg.mpIgnoreTime[1]
        /\ ~OverrideSet => calls[c].data.ignore_time = ~Active(msg)

(* C26, amended: $ignore_time of identify is true whenever one of the context
   override flags is true, and equals the negation of active() otherwise; a
   flag set to false overrides nothing. *)
C26_IgnoreTime ==
    \A c \in IdentifyCalls :
        /\ OverrideTrue => calls[c].data.ignore_time = TRUE
        /\ ~OverrideTrue => calls[c].data.ignore_time = ~Active(msg)

\* an inactive identify whose override flag is false: $ignore_time is true
C26_Witness ==
    /\ msg.ignoreTime = <<FALSE>> /\ msg.mpIgnoreTime = <<>> /\ msg.active = <<FALSE>>
    /\ \E c \in IdentifyCalls : calls[c].data.ignore_time = TRUE
    /\ CalledBackWithSuccess

\* the properties of the event payload of post call c
PostedProperties(c) == calls[c].data.properties

(* C27: in the properties of the event payload that track posts, after the
   semantic properties, the user-agent fields and the super-properties are
   merged, no key has a null or undefined value. *)
C27_NoNullProperty ==
    \A c \in Posts :
        \A i \in 1..Len(PostedProperties(c)) : ~IsNullish(PostedProperties(c)[i][2])

(* C28: in every event payload that track posts, properties.token is
   settings.token and properties.distinct_id is the userId of the event or
   else its sessionId, whatever keys the properties and the traits of the
   event contain. *)
C28_ReservedFields ==
    \A c \in Posts :
        /\ Get(PostedProperties(c), "token") = Value(settings.token)
        /\ Get(PostedProperties(c), "distinct_id") = Value(DistinctId)

\* the track calls page pushed on its Batch, the first Batch of the run
PageTracks == IF IsPage /\ batches # <<>> THEN batches[1].fns ELSE <<>>

\* the event post of the track call of page for event ev
PostOf(ev) == {c \in Posts : calls[c].ev = ev}

(* C29: for every track call that page or screen emits and that succeeds, the
   entry page/screen reports for it in its ordered result list is the response
   of that track's primary event post, with people enabled and disabled and
   with or without revenue. *)
C29_PageResults ==
    (IsPage /\ CalledBackWithSuccess /\ PageTracks # <<>>) =>
        /\ cbs[1].res.t = "array"
        /\ Len(cbs[1].res.items) = Len(PageTracks)
        /\ \A i \in 1..Len(PageTracks) :
               \E c \in PostOf(PageTracks[i].ev) : cbs[1].res.items[i] = Res(c)

====
